---- MODULE Spec2Model ----
(***************************************************************************)
(* Model of scripts/01c_serp_collect.py: the SerpApi collector             *)
(* (call_serpapi, collect_for_query), the corpus store (merge_and_save)    *)
(* and the orchestrator (run_collection); and of the run of                *)
(* scripts/01b_auto_collect.py, which writes the same corpus file.         *)
(*                                                                         *)
(* Seven specifications share the definitions:                             *)
(*   SpecMerge      a sequence of merge_and_save calls on one path;        *)
(*   SpecNormalize  normalize_job applied to two raw records;              *)
(*   SpecFetch      one collect_for_query call, one HTTP attempt per step  *)
(*                  (FairSpecFetch: the same under weak fairness);         *)
(*   Spec           one run_collection call over the query matrix;         *)
(*   SpecTwoRuns    two run_collection calls on the same inputs;           *)
(*   SpecAuto       one run of 01b_auto_collect.py.                        *)
(***************************************************************************)
EXTENDS Integers, Sequences, FiniteSets, TLC

(***************************************************************************)
(* Bounds of the model.                                                    *)
(***************************************************************************)
MaxBatch == 2
MaxCalls == 3
MaxPage == 2
MaxResults == 2
MaxQueries == 2
MaxRunPage == 1

(***************************************************************************)
(* Program constants.                                                      *)
(***************************************************************************)
DEFAULT_PAGE_SIZE == 10
MAX_RETRIES == 3

(***************************************************************************)
(* Values.  A field of a record is ABSENT (no such key), NULL (JSON null,  *)
(* Python None; in a file, the empty cell) or a string.                    *)
(***************************************************************************)
ABSENT == "<absent>"

NULL == "<null>"

(***************************************************************************)
(* CSV cells.  A file holds text.  pandas.read_csv infers one dtype per    *)
(* column: a column whose every cell parses as an integer is int64, one    *)
(* whose every cell parses as a number is float64, any other is object     *)
(* (str).  to_csv writes an int as its digits and a float as its repr.     *)
(* A DataFrame cell is [k |-> dtype of the value, v |-> its text].         *)
(***************************************************************************)
IntLike == {"7"}

FloatLike == {"7", "7.0", "1e1", "10.0"}

\* repr(float(t)) for the numeric texts of the model
FloatRepr(t) ==
    CASE t \in {"7", "7.0"} -> "7.0"
      [] t \in {"1e1", "10.0"} -> "10.0"
      [] OTHER -> t

\* the ids a batch may carry: str values, as make_id's hexdigest() returns.
\* "a3" stands for an id with a letter other than one exponent e, "7" for
\* an id of digits that fits int64, "1e1" for an id of digits, one e, digits.
BatchIds == {"a3", "7", "1e1"}

\* retrieved_at: the time of utcnow(), in ticks (written as an ISO timestamp
\* ending in Z, which read_csv keeps as text)
Stamps == {1, 2}

Absent == [exists |-> FALSE, rows |-> <<>>]

CsvFile(rows) == [exists |-> TRUE, rows |-> rows]

\* pd.DataFrame(records): the values as they are, ids being str
DataFrame(records) ==
    [i \in DOMAIN records |-> [records[i] EXCEPT !.id = [k |-> "str", v |-> @]]]

\* dtype pandas infers for a column of texts
infer_dtype(texts) ==
    IF texts # {} /\ texts \subseteq IntLike THEN "int"
    ELSE IF texts # {} /\ texts \subseteq FloatLike THEN "float"
    ELSE "str"

\* pd.read_csv(output_path)
read_csv(rows) ==
    LET dt == infer_dtype({rows[i].id : i \in DOMAIN rows})
    IN  [i \in DOMAIN rows |->
            [rows[i] EXCEPT !.id = [k |-> dt,
                                    v |-> IF dt = "float" THEN FloatRepr(@) ELSE @]]]

\* pd.read_csv raises EmptyDataError ("No columns to parse from file") on a
\* file without a header line, such as to_csv leaves for a frame without
\* columns
EmptyDataError(file) == file.exists /\ file.rows = <<>>

\* pd.concat([df_old, df_new], ignore_index=True): the rows of both under
\* the union of their columns; a cell of a column a frame lacks is NaN,
\* written as an empty cell as None is
concat(df_old, df_new) ==
    LET both == df_old \o df_new
        columns == UNION {DOMAIN both[i] : i \in DOMAIN both}
    IN  [i \in DOMAIN both |->
            IF DOMAIN both[i] = columns THEN both[i]
            ELSE [c \in columns |->
                     IF c \in DOMAIN both[i] THEN both[i][c] ELSE NULL]]

RECURSIVE drop_duplicates(_)
\* df.drop_duplicates(subset=["id"]): keep="first", values compared as
\* Python objects (7 and "7" differ)
drop_duplicates(df) ==
    IF df = <<>> THEN <<>>
    ELSE LET h == Head(df)
         IN  <<h>> \o drop_duplicates(SelectSeq(Tail(df), LAMBDA r : r.id # h.id))

\* df.to_csv(output_path, index=False)
to_csv(df) ==
    [i \in DOMAIN df |-> [df[i] EXCEPT !.id = @.v]]

\* merge_and_save(records, output_path): the file left at output_path, when
\* read_csv does not raise
merge_and_save(records, file) ==
    LET df_new == DataFrame(records)
        df_combined ==
            IF file.exists
            THEN drop_duplicates(concat(read_csv(file.rows), df_new))
            ELSE drop_duplicates(df_new)
    IN  CsvFile(to_csv(df_combined))

(***************************************************************************)
(* Raw external records.                                                   *)
(***************************************************************************)
RawJob(apply_link, link, title, company_name) ==
    [apply_link |-> apply_link, link |-> link,
     title |-> title, company_name |-> company_name]

\* the records the mock API serves: one with an apply link, one identified
\* by title and company, one whose title is null
RawJobs ==
    {RawJob("u1", ABSENT, "T", "C"),
     RawJob(ABSENT, ABSENT, "T", "C"),
     RawJob(ABSENT, ABSENT, NULL, "C")}

RECURSIVE SeqsUpTo(_, _)
SeqsUpTo(S, n) ==
    IF n = 0 THEN {<<>>}
    ELSE LET shorter == SeqsUpTo(S, n - 1)
         IN  shorter \cup {Append(s, x) : s \in {t \in shorter : Len(t) = n - 1}, x \in S}

\* the pages of at most n records
Pages(n) == SeqsUpTo(RawJobs, n)

(***************************************************************************)
(* What one HTTP attempt of call_serpapi can meet:                         *)
(*   exc      requests.get raised (timeout, connection error)              *)
(*   http     a response whose status is not 200                           *)
(*   badjson  status 200, body not parseable: resp.json() raises           *)
(*   falsy    status 200, body parses to null, {} or another falsy value   *)
(*   nondict  status 200, body parses to a non-empty list or a scalar      *)
(*   dict     status 200, body parses to a non-empty object; error: it     *)
(*            has an "error" key; islist: its jobs_results is a list (or   *)
(*            missing or null, jobs then being empty); jobs: that list     *)
(***************************************************************************)
Outcome(kind, error, islist, jobs) ==
    [kind |-> kind, error |-> error, islist |-> islist, jobs |-> jobs]

\* the outcomes whose pages hold at most n records; an error object, as
\* SerpApi sends it, has no jobs_results
OutcomesUpTo(n) ==
    {Outcome(k, FALSE, FALSE, <<>>) : k \in {"exc", "http", "badjson", "falsy", "nondict"}}
    \cup {Outcome("dict", FALSE, TRUE, p) : p \in Pages(n)}
    \cup {Outcome("dict", FALSE, FALSE, <<>>), Outcome("dict", TRUE, TRUE, <<>>)}

\* what the API may answer in SpecFetch, and in Spec
Outcomes == OutcomesUpTo(MaxPage)

RunOutcomes == OutcomesUpTo(MaxRunPage)

Status200 == {"badjson", "falsy", "nondict", "dict"}

\* one pass of the body of call_serpapi's for loop: "return" when the
\* attempt returns resp.json(), "retry" when it falls through to the sleep
attempt_result(o) ==
    IF o.kind \in {"exc", "http", "badjson"} THEN "retry" ELSE "return"

\* extract_jobs_from_response(resp_json), for a dict
extract_jobs_from_response(o) ==
    IF o.islist THEN o.jobs ELSE <<>>

Min(a, b) == IF a < b THEN a ELSE b

Max(a, b) == IF a < b THEN b ELSE a

\* Python's seq[:n]
Slice(seq, n) ==
    IF n >= 0 THEN SubSeq(seq, 1, Min(n, Len(seq)))
    ELSE SubSeq(seq, 1, Max(Len(seq) + n, 0))

\* a bug: the page replaces the accumulator instead of extending it
append_jobs_overwrite(collected, jobs, max_results) ==
    SubSeq(jobs, 1, Min(Len(jobs), max_results))

\* the for loop of collect_for_query over one page: append, stop at the cap
append_jobs(collected, jobs, max_results) ==
    collected \o SubSeq(jobs, 1, Min(Len(jobs), max_results - Len(collected)))

(***************************************************************************)
(* The record normalizer.                                                  *)
(***************************************************************************)
\* dict.get(k): None for a missing key
get(item, k) == IF item[k] = ABSENT THEN NULL ELSE item[k]

\* dict.get(k, ""): "" for a missing key, None for a null value
get_or_empty(item, k) == IF item[k] = ABSENT THEN "" ELSE item[k]

\* Python truth of a field value
Truthy(v) == v \notin {NULL, ""}

\* x or y
Or(x, y) == IF Truthy(x) THEN x ELSE y

\* hashlib.sha1(key).hexdigest(): the digests of the keys of the model, and
\* an injective tag for any other key
sha1(key) ==
    CASE key = "u1" -> "c5ea71554c774daf7fab320fc3476afc0617eb00"
      [] key = "u2" -> "b9c69e5488ff88b92096f1137382e67fe1172fa6"
      [] key = "" -> "da39a3ee5e6b4b0d3255bfef95601890afd80709"
      [] key = "C" -> "32096c2e0eff33d844ee6d675407ace18289357d"
      [] key = "T" -> "c2c53d66948214258a26ca9ca845d7ac0c17f8e7"
      [] key = "TC" -> "276f33cf6970c5e6d0e901826df14204875496c6"
      [] key = "TCC" -> "169969005eaec18d6f67d6fa18b503f2459fb41b"
      [] OTHER -> "sha1(" \o key \o ")"

\* the error value of a call that raised
RAISED == "<raised>"

\* a bug: the title and the company take priority over the links
make_id_title_first(item) ==
    LET linked == Or(get(item, "apply_link"), get(item, "link"))
    IN  IF get_or_empty(item, "title") = NULL
           \/ get_or_empty(item, "company_name") = NULL
        THEN RAISED
        ELSE sha1(Or(get_or_empty(item, "title") \o get_or_empty(item, "company_name"),
                     IF Truthy(linked) THEN linked ELSE ""))

\* make_id(item): None + str and str + None raise TypeError
make_id(item) ==
    LET linked == Or(get(item, "apply_link"), get(item, "link"))
    IN  IF Truthy(linked) THEN sha1(linked)
        ELSE IF get_or_empty(item, "title") = NULL
                \/ get_or_empty(item, "company_name") = NULL
             THEN RAISED
             ELSE sha1(get_or_empty(item, "title") \o get_or_empty(item, "company_name"))

\* a bug: the time of retrieval is hashed into the id (the digest of
\* another key of the model stands for the digest of the key and the time)
normalize_job_stamped_id(job, role, country, language, now) ==
         [id |-> IF make_id(job) = RAISED THEN RAISED
                 ELSE IF now % 2 = 0 THEN make_id(job)
                 ELSE IF make_id(job) = sha1("u1") THEN sha1("u2")
                 ELSE IF make_id(job) = sha1("TC") THEN sha1("T")
                 ELSE sha1(""),
          title |-> get(job, "title"),
          company |-> get(job, "company_name"),
          location |-> NULL,
          description |-> NULL,
          date_posted |-> NULL,
          source |-> NULL,
          apply_link |-> Or(get(job, "apply_link"), get(job, "link")),
          raw |-> job,
          role_query |-> role,
          country |-> country,
          language |-> language,
          retrieved_at |-> now]

\* normalize_job(job, role, country, language), now being utcnow(); the raw
\* records of the model carry no location, description, date or source
\* (a record whose id is RAISED stands for the call raising)
normalize_job(job, role, country, language, now) ==
         [id |-> make_id(job),
          title |-> get(job, "title"),
          company |-> get(job, "company_name"),
          location |-> NULL,
          description |-> NULL,
          date_posted |-> NULL,
          source |-> NULL,
          apply_link |-> Or(get(job, "apply_link"), get(job, "link")),
          raw |-> job,
          role_query |-> role,
          country |-> country,
          language |-> language,
          retrieved_at |-> now]

(***************************************************************************)
(* The query matrix and the paths of run_collection.                       *)
(***************************************************************************)
Countries == <<"France", "USA", "Allemagne", "Japon">>

Roles == <<"Product Owner", "Scrum Master", "Product Manager">>

\* QUERIES.items() and role_map.items(), flattened in iteration order
QUERIES ==
    [i \in 1 .. Len(Countries) * Len(Roles) |->
        [country |-> Countries[((i - 1) \div Len(Roles)) + 1],
         role |-> Roles[((i - 1) % Len(Roles)) + 1]]]

\* LOCATION_HINTS[country]["hl"]
LOCATION_HINTS(country) ==
    CASE country = "France" -> "fr"
      [] country = "USA" -> "en"
      [] country = "Allemagne" -> "de"
      [] country = "Japon" -> "ja"
      [] OTHER -> "en"

\* the part of the matrix the model runs
Matrix == SubSeq(QUERIES, 1, Min(MaxQueries, Len(QUERIES)))

DEFAULT_OUTPUT_CSV == "data/raw/offres_google_jobs.csv"

DEFAULT_SAMPLE_CSV == "data/raw/offres_google_jobs_sample.csv"

OtherPath == "out.csv"

Paths == {DEFAULT_OUTPUT_CSV, DEFAULT_SAMPLE_CSV, OtherPath}

\* os.path.dirname(path) or ".": the directory a file of the model is in
dirname(path) == IF path = OtherPath THEN "." ELSE "data/raw"

\* the working directory is there; data/raw is once something made it
DirStates == {{"."}, {".", "data/raw"}}

\* the directories there can be around the files: a file is in a directory
\* that exists
DirsAround(files) ==
    {d \in DirStates : \A p \in Paths : files[p].exists => dirname(p) \in d}

\* the digests of the model in ascending (lexicographic) order
HexOrder ==
    <<"169969005eaec18d6f67d6fa18b503f2459fb41b",
      "276f33cf6970c5e6d0e901826df14204875496c6",
      "32096c2e0eff33d844ee6d675407ace18289357d",
      "b9c69e5488ff88b92096f1137382e67fe1172fa6",
      "c2c53d66948214258a26ca9ca845d7ac0c17f8e7",
      "c5ea71554c774daf7fab320fc3476afc0617eb00",
      "da39a3ee5e6b4b0d3255bfef95601890afd80709">>

IdRank(id) == CHOOSE i \in DOMAIN HexOrder : HexOrder[i] = id

RECURSIVE sort_values(_)
\* df.sort_values(by="id"): ascending; rows of equal id keep their order
\* (numpy sorts arrays this short by insertion)
sort_values(records) ==
    IF records = <<>> THEN <<>>
    ELSE LET sorted == sort_values(SubSeq(records, 1, Len(records) - 1))
             x == records[Len(records)]
             before == SelectSeq(sorted, LAMBDA r : IdRank(r.id) <= IdRank(x.id))
             after == SelectSeq(sorted, LAMBDA r : IdRank(r.id) > IdRank(x.id))
         IN  before \o <<x>> \o after

\* df.head(n)
head(records, n) == Slice(records, n)

RECURSIVE normalize_all(_, _, _)
\* the for loop of run_collection over the jobs of one query: the records
\* appended before normalize_job raises, if it does; the clock ticks once a
\* record
normalize_all(jobs, q, now) ==
    IF jobs = <<>> THEN [out |-> <<>>, raised |-> FALSE]
    ELSE LET norm == normalize_job(Head(jobs), q.role, q.country,
                                   LOCATION_HINTS(q.country), now)
         IN  IF norm.id = RAISED THEN [out |-> <<>>, raised |-> TRUE]
             ELSE LET rest == normalize_all(Tail(jobs), q, now + 1)
                  IN  [out |-> <<norm>> \o rest.out, raised |-> rest.raised]

(***************************************************************************)
(* scripts/01b_auto_collect.py: GoogleJobsCollector and its run.  It makes *)
(* one request per (pays, role) pair and writes what it collected to the   *)
(* path of the main corpus, without reading the file there.                *)
(***************************************************************************)
\* num_par_pays_role, as the run passes it to collecter_tout
NUM_PAR_PAYS_ROLE == 10

\* self.configs.keys() and self.roles, flattened in iteration order, as far
\* as the model runs them
AutoMatrix ==
    LET pairs == [i \in 1 .. Len(Countries) * Len(Roles) |->
                     [pays |-> Countries[((i - 1) \div Len(Roles)) + 1],
                      role |-> Roles[((i - 1) % Len(Roles)) + 1]]]
    IN  SubSeq(pairs, 1, Min(MaxQueries, Len(pairs)))

\* self.configs[pays]['langue']
langue(pays) ==
    CASE pays = "France" -> "fr"
      [] pays = "USA" -> "en"
      [] pays = "Allemagne" -> "de"
      [] pays = "Japon" -> "ja"

\* pays[:2].upper()
pays_code(pays) ==
    CASE pays = "France" -> "FR"
      [] pays = "USA" -> "US"
      [] pays = "Allemagne" -> "AL"
      [] pays = "Japon" -> "JA"

role_code(role) ==
    CASE role = "Product Owner" -> "PO"
      [] role = "Scrum Master" -> "SM"
      [] role = "Product Manager" -> "PM"

\* f"{idx:03d}" for the indices 1 .. NUM_PAR_PAYS_ROLE
idx03(idx) ==
    <<"001", "002", "003", "004", "005", "006", "007", "008", "009", "010">>[idx]

\* a record of jobs_results as collecter_offres reads it; the model serves
\* records without description, share_url or job_id
AutoJob(company_name) == [company_name |-> company_name]

AutoJobs == {AutoJob("C"), AutoJob(ABSENT), AutoJob(NULL)}

\* what GoogleSearch(params).get_dict() can meet:
\*   exc    it raised
\*   dict   it returned a dict, with an error field or with jobs
AutoOutcome(kind, error, jobs) == [kind |-> kind, error |-> error, jobs |-> jobs]

AutoOutcomes ==
    {AutoOutcome("exc", FALSE, <<>>), AutoOutcome("dict", TRUE, <<>>)}
        \cup {AutoOutcome("dict", FALSE, jobs) : jobs \in SeqsUpTo(AutoJobs, MaxRunPage)}

\* the dict collecter_offres builds for the idx-th record of a pair; with
\* no description _nettoyer_description returns ''
offre(job, idx, pays, role, today) ==
    [id |-> pays_code(pays) \o "_" \o role_code(role) \o "_" \o idx03(idx),
     pays |-> pays,
     role |-> role,
     source |-> "Google Jobs",
     entreprise |-> IF job.company_name = ABSENT THEN "N/A" ELSE job.company_name,
     url |-> "",
     date_collecte |-> today,
     texte_brut |-> "",
     langue |-> langue(pays),
     type |-> "offre"]

RECURSIVE extraire(_, _, _, _, _)
\* the for loop of collecter_offres from index idx on: the offers appended
\* to self.offres.  The print that ends a turn slices company_name and
\* raises on a null one, after the append; the except clause ends the call.
extraire(jobs, idx, pays, role, today) ==
    IF jobs = <<>> THEN <<>>
    ELSE LET o == offre(Head(jobs), idx, pays, role, today)
         IN  IF Head(jobs).company_name = NULL THEN <<o>>
             ELSE <<o>> \o extraire(Tail(jobs), idx + 1, pays, role, today)

\* collecter_offres(pays, role, num_offres) when the search meets o: what it
\* appends to self.offres.  It raises nothing: every exception is caught.
collecter_offres(o, pays, role, num_offres, today) ==
    IF o.kind = "dict" /\ ~o.error
    THEN extraire(Slice(o.jobs, num_offres), 1, pays, role, today)
    ELSE <<>>

\* df.to_csv(filepath) in sauvegarder raises OSError when the directory of
\* filepath does not exist: to_csv makes no directory
to_csv_raises(filepath, directories) == dirname(filepath) \notin directories

\* sauvegarder(filepath): the file left at filepath when to_csv does not
\* raise.  The frame of self.offres replaces the file; what was there is not
\* read.
sauvegarder(the_offres) == CsvFile(to_csv(DataFrame(the_offres)))

\* df.groupby(['pays', 'role']) in sauvegarder raises KeyError on the frame
\* of no offers, which has no columns; the file is written by then
groupby_raises(the_offres) == the_offres = <<>>

\* the offer an earlier run of 01b left in the main corpus
EarlierOffre == offre(AutoJob("C"), 1, "France", "Product Owner", 0)

(***************************************************************************)
(* State.                                                                  *)
(***************************************************************************)
VARIABLES
    n_jobs,      \* SpecNormalize: the raw records handed to normalize_job
    n_out,       \* SpecNormalize: what normalize_job returned for each
    t_results,   \* SpecTwoRuns: what collect_for_query returns for each pair
    t_args,      \* SpecTwoRuns: the arguments of both runs
    t_files,     \* SpecTwoRuns: the files when each run starts
    t_now,       \* SpecTwoRuns: the time when each run starts
    t_out,       \* SpecTwoRuns: the files each run left
    corpus,      \* SpecMerge: the file at the path
    m_before,    \* SpecMerge: the file before the last call
    m_batch,     \* SpecMerge: the batch of the last call
    m_twice,     \* SpecMerge: the last two calls had the same batch
    m_calls,     \* SpecMerge: number of calls made
    pc,          \* where the collector is
    max_results, \* collect_for_query: the cap
    page_size,   \* collect_for_query: the page size
    collected,   \* collect_for_query: the accumulator
    start,       \* collect_for_query: the offset of the next request
    attempt,     \* call_serpapi: the attempt about to be made
    result,      \* what collect_for_query returned
    requests,    \* history: the offsets of the calls of call_serpapi of this query
    tries,       \* history: the outcome kinds of the attempts of the last call of call_serpapi
    last,        \* history: the last outcome met
    received,    \* history: the pages received for this query, concatenated
    sleeps,      \* history: the calls of time.sleep since the last HTTP attempt
    SERPAPI_KEY, \* whether the environment sets the API key
    args,        \* run_collection: max_per_query, dry_run, sample_size, output
    fs,          \* the files at the paths
    fs0,         \* history: the files when the run started
    qi,          \* run_collection: the index in Matrix of the current query
    all_normalized, \* run_collection: the accumulator
    outcomes,    \* history: how the try block of each query so far ended
    saves,       \* history: the paths merge_and_save was called with
    exit_code,   \* the exit code of the process, once it has exited
    offres,      \* GoogleJobsCollector.offres of 01b_auto_collect.py
    dirs,        \* the directories that exist
    clock        \* the time, in ticks

mergeVars == <<corpus, m_before, m_batch, m_twice, m_calls>>

fetchVars == <<pc, max_results, page_size, collected, start, attempt, result,
               requests, tries, last, received, sleeps>>

runVars == <<SERPAPI_KEY, args, fs, fs0, qi, all_normalized, outcomes, saves,
            exit_code, offres, dirs, clock>>

normVars == <<n_jobs, n_out>>

twoVars == <<t_results, t_args, t_files, t_now, t_out>>

vars == <<normVars, twoVars, mergeVars, fetchVars, runVars>>

NoOutcome == [kind |-> "none", error |-> FALSE, njobs |-> 0]

NormIdle ==
    /\ n_jobs = <<>>
    /\ n_out = <<>>

TwoIdle ==
    /\ t_results = <<>>
    /\ t_args = [max_per_query |-> 0, dry_run |-> FALSE, sample_size |-> 0, output |-> NULL]
    /\ t_files = [p \in Paths |-> Absent]
    /\ t_now = <<>>
    /\ t_out = <<>>

MergeIdle ==
    /\ corpus = Absent
    /\ m_before = Absent
    /\ m_batch = <<>>
    /\ m_twice = FALSE
    /\ m_calls = 0

RunIdle ==
    /\ SERPAPI_KEY = FALSE
    /\ args = [max_per_query |-> 0, dry_run |-> FALSE, sample_size |-> 0, output |-> NULL]
    /\ fs = [p \in Paths |-> Absent]
    /\ fs0 = fs
    /\ qi = 0
    /\ all_normalized = <<>>
    /\ outcomes = <<>>
    /\ saves = <<>>
    /\ exit_code = <<>>
    /\ offres = <<>>
    /\ dirs = {"."}
    /\ clock = 0

FetchIdle ==
    /\ pc = "idle"
    /\ max_results = 0
    /\ page_size = DEFAULT_PAGE_SIZE
    /\ collected = <<>>
    /\ start = 0
    /\ attempt = 0
    /\ result = <<>>
    /\ requests = <<>>
    /\ tries = <<>>
    /\ last = NoOutcome
    /\ received = <<>>
    /\ sleeps = <<>>

\* the batches of SpecMerge: one to MaxBatch records, stamped alike
Batches ==
    {[i \in DOMAIN ids |-> [id |-> ids[i], retrieved_at |-> st]] :
        ids \in SeqsUpTo(BatchIds, MaxBatch) \ {<<>>}, st \in Stamps}

InitMerge == NormIdle /\ TwoIdle /\ MergeIdle /\ FetchIdle /\ RunIdle

\* one call merge_and_save(batch, path)
MergeCall(batch) ==
    /\ m_calls < MaxCalls
    /\ corpus' = merge_and_save(batch, corpus)
    /\ m_before' = corpus
    /\ m_batch' = batch
    /\ m_twice' = (m_calls > 0 /\ batch = m_batch)
    /\ m_calls' = m_calls + 1
    /\ UNCHANGED <<normVars, twoVars, fetchVars, runVars>>

NextMerge == \E batch \in Batches : MergeCall(batch)

SpecMerge == InitMerge /\ [][NextMerge]_vars

(***************************************************************************)
(* The normalizer alone: normalize_job applied to two raw records.         *)
(***************************************************************************)
\* the raw records of SpecNormalize: each field absent, null, empty or set
NormJobs ==
    {RawJob(a, l, t, c) : a \in {ABSENT, NULL, "", "u1"}, l \in {ABSENT, "u1", "u2"},
                          t \in {ABSENT, NULL, "T", "TC"}, c \in {ABSENT, NULL, "", "C"}}

InitNormalize ==
    /\ TwoIdle
    /\ MergeIdle
    /\ FetchIdle
    /\ RunIdle
    /\ n_jobs \in {<<a, b>> : a \in NormJobs, b \in NormJobs}
    /\ n_out = <<>>

\* normalize_job(job, role, country, language) on each record, the second
\* call at a later time and for the query q
NormalizeBoth(q, now) ==
    /\ n_out = <<>>
    /\ n_out' = <<normalize_job(n_jobs[1], QUERIES[1].role, QUERIES[1].country,
                                LOCATION_HINTS(QUERIES[1].country), now),
                  normalize_job(n_jobs[2], q.role, q.country,
                                LOCATION_HINTS(q.country), now + 1)>>
    /\ UNCHANGED <<n_jobs, twoVars, mergeVars, fetchVars, runVars>>

NextNormalize ==
    \E q \in {QUERIES[1], QUERIES[Len(QUERIES)]}, now \in Stamps : NormalizeBoth(q, now)

SpecNormalize == InitNormalize /\ [][NextNormalize]_vars

(***************************************************************************)
(* The paginated fetcher: collect_for_query, one HTTP attempt per step.    *)
(***************************************************************************)
\* a bug: the cap is tested after the first request, not before it
CollectEnter_do_while ==
    /\ pc = "collect"
    /\ collected' = <<>>
    /\ start' = 0
    /\ tries' = <<>>
    /\ last' = NoOutcome
    /\ received' = <<>>
    /\ pc' = "attempt"
    /\ attempt' = 1
    /\ requests' = <<0>>
    /\ result' = <<>>
    /\ UNCHANGED <<max_results, page_size, sleeps>>

\* collect_for_query up to its first request: lines 129-132
CollectEnter ==
    /\ pc = "collect"
    /\ collected' = <<>>
    /\ start' = 0
    /\ tries' = <<>>
    /\ last' = NoOutcome
    /\ received' = <<>>
    /\ IF 0 < max_results
       THEN /\ pc' = "attempt"
            /\ attempt' = 1
            /\ requests' = <<0>>
            /\ result' = <<>>
       ELSE /\ pc' = "fetched"
            /\ attempt' = 0
            /\ requests' = <<>>
            /\ result' = Slice(<<>>, max_results)
    /\ UNCHANGED <<max_results, page_size, sleeps>>

\* a bug: a break discards what was collected
Return_discard(c) ==
    /\ pc' = "fetched"
    /\ result' = <<>>

\* break, pbar.close(), return collected[:max_results]
Return(c) ==
    /\ pc' = "fetched"
    /\ result' = Slice(c, max_results)

\* one HTTP attempt of call_serpapi meeting outcome o, and what follows it
\* up to the next HTTP attempt or the end of collect_for_query
HttpAttempt(o) ==
    /\ pc = "attempt"
    /\ tries' = IF attempt = 1 THEN <<o.kind>> ELSE Append(tries, o.kind)
    /\ last' = [kind |-> o.kind, error |-> o.error,
                njobs |-> Len(extract_jobs_from_response(o))]
    /\ UNCHANGED <<max_results, page_size>>
    /\ IF attempt_result(o) = "retry"
       THEN IF attempt < MAX_RETRIES
            THEN \* time.sleep(2 ** attempt), next attempt
                 /\ attempt' = attempt + 1
                 /\ sleeps' = <<"backoff">>
                 /\ UNCHANGED <<pc, collected, start, result, requests, received>>
            ELSE \* time.sleep(2 ** attempt), call_serpapi returns None:
                 \* if not resp: break
                 /\ Return(collected)
                 /\ sleeps' = <<"backoff">>
                 /\ UNCHANGED <<collected, start, attempt, requests, received>>
       ELSE IF o.kind = "falsy"
            THEN \* if not resp: break
                 /\ Return(collected)
                 /\ sleeps' = <<>>
                 /\ UNCHANGED <<collected, start, attempt, requests, received>>
       ELSE IF o.kind = "nondict"
            THEN \* resp_json.get raises AttributeError out of collect_for_query
                 /\ pc' = "raised"
                 /\ sleeps' = <<>>
                 /\ UNCHANGED <<collected, start, attempt, result, requests, received>>
       ELSE LET jobs == extract_jobs_from_response(o)
                after == append_jobs(collected, jobs, max_results)
            IN  IF jobs = <<>>
                THEN \* if not jobs: break
                     /\ Return(collected)
                     /\ sleeps' = <<>>
                     /\ UNCHANGED <<collected, start, attempt, requests, received>>
                ELSE /\ collected' = after
                     /\ start' = start + page_size
                     /\ received' = received \o jobs
                     \* time.sleep(REQUEST_SLEEP), then the test of the while
                     /\ sleeps' = <<"REQUEST_SLEEP">>
                     /\ IF Len(after) < max_results
                        THEN \* next page
                             /\ attempt' = 1
                             /\ requests' = Append(requests, start + page_size)
                             /\ UNCHANGED <<pc, result>>
                        ELSE /\ Return(after)
                             /\ UNCHANGED <<attempt, requests>>

\* one call collect_for_query(query, hint, max_results, page_size)
InitFetch ==
    /\ NormIdle
    /\ TwoIdle
    /\ MergeIdle
    /\ RunIdle
    /\ pc = "collect"
    /\ max_results \in -1 .. MaxResults
    /\ page_size \in {1, DEFAULT_PAGE_SIZE}
    /\ collected = <<>>
    /\ start = 0
    /\ attempt = 0
    /\ result = <<>>
    /\ requests = <<>>
    /\ tries = <<>>
    /\ last = NoOutcome
    /\ received = <<>>
    /\ sleeps = <<>>

NextFetch ==
    \/ CollectEnter /\ UNCHANGED <<normVars, twoVars, mergeVars, runVars>>
    \/ \E o \in Outcomes : HttpAttempt(o) /\ UNCHANGED <<normVars, twoVars, mergeVars, runVars>>

SpecFetch == InitFetch /\ [][NextFetch]_vars

\* every HTTP attempt ends (requests.get has a timeout) and every sleep is
\* finite: the call keeps taking steps while it has one to take
FairSpecFetch == SpecFetch /\ WF_vars(NextFetch)

(***************************************************************************)
(* The orchestrator: run_collection.                                       *)
(***************************************************************************)
\* effective_max: line 176
effective_max ==
    IF ~args.dry_run THEN args.max_per_query ELSE Max(1, args.sample_size)

\* the guard on the API key, and the setup before the loops: lines 171-178
RunStart ==
    /\ pc = "start"
    /\ pc' = IF SERPAPI_KEY THEN "loop" ELSE "done"
    \* without the key run_collection returns, main returns: exit code 0
    /\ exit_code' = IF SERPAPI_KEY THEN <<>> ELSE <<0>>
    /\ all_normalized' = <<>>
    /\ qi' = 0
    /\ UNCHANGED <<max_results, page_size, collected, start, attempt, result,
                   requests, tries, last, received, sleeps>>
    /\ UNCHANGED <<SERPAPI_KEY, dirs, offres, args, fs, fs0, outcomes, saves, clock>>
    /\ UNCHANGED <<normVars, twoVars, mergeVars>>

\* the for loops take the next (country, role) pair and call
\* collect_for_query, or end
NextQuery ==
    /\ pc = "loop"
    /\ IF qi < Len(Matrix)
       THEN /\ qi' = qi + 1
            /\ pc' = "collect"
            /\ max_results' = effective_max
            /\ page_size' = DEFAULT_PAGE_SIZE
       ELSE /\ pc' = "save"
            /\ UNCHANGED <<qi, max_results, page_size>>
    \* the locals of the call that ended are gone
    /\ collected' = <<>>
    /\ start' = 0
    /\ attempt' = 0
    /\ result' = <<>>
    /\ requests' = <<>>
    /\ tries' = <<>>
    /\ last' = NoOutcome
    /\ received' = <<>>
    /\ UNCHANGED sleeps
    /\ UNCHANGED <<SERPAPI_KEY, dirs, offres, args, fs, fs0, all_normalized, outcomes, saves,
                   exit_code, clock>>
    /\ UNCHANGED <<normVars, twoVars, mergeVars>>

\* a bug: no except clause, an exception of a query ends the run
AfterQuery_no_except ==
    /\ pc \in {"fetched", "raised"}
    /\ LET done == IF pc = "raised" THEN [out |-> <<>>, raised |-> TRUE]
                   ELSE normalize_all(result, Matrix[qi], clock)
       IN  /\ all_normalized' = all_normalized \o done.out
           /\ clock' = clock + Len(done.out) + 1
           /\ outcomes' = Append(outcomes, IF done.raised THEN "raised" ELSE "returned")
           /\ pc' = IF done.raised THEN "done" ELSE "loop"
           /\ exit_code' = IF done.raised THEN <<1>> ELSE exit_code
    /\ sleeps' = IF pc = "raised" \/ normalize_all(result, Matrix[qi], clock).raised
                 THEN sleeps ELSE Append(sleeps, "between queries")
    /\ UNCHANGED <<max_results, page_size, collected, start, attempt, result,
                   requests, tries, last, received>>
    /\ UNCHANGED <<SERPAPI_KEY, dirs, offres, args, fs, fs0, qi, saves>>
    /\ UNCHANGED <<normVars, twoVars, mergeVars>>

\* a bug: the records of each query are merged into the output at once
AfterQuery_save_each ==
    /\ pc \in {"fetched", "raised"}
    /\ pc' = "loop"
    /\ LET done == IF pc = "raised" THEN [out |-> <<>>, raised |-> TRUE]
                   ELSE normalize_all(result, Matrix[qi], clock)
           out_path == IF args.dry_run /\ ~Truthy(args.output) THEN DEFAULT_SAMPLE_CSV
                       ELSE IF Truthy(args.output) THEN args.output
                       ELSE DEFAULT_OUTPUT_CSV
       IN  /\ all_normalized' = all_normalized \o done.out
           /\ clock' = clock + Len(done.out) + 1
           /\ outcomes' = Append(outcomes, IF done.raised THEN "raised" ELSE "returned")
           /\ IF done.out = <<>>
              THEN UNCHANGED <<fs, saves>>
              ELSE /\ fs' = [fs EXCEPT ![out_path] = merge_and_save(done.out, @)]
                   /\ saves' = Append(saves, out_path)
    /\ sleeps' = IF pc = "raised" \/ normalize_all(result, Matrix[qi], clock).raised
                 THEN sleeps ELSE Append(sleeps, "between queries")
    /\ UNCHANGED <<max_results, page_size, collected, start, attempt, result,
                   requests, tries, last, received>>
    /\ UNCHANGED <<SERPAPI_KEY, dirs, offres, args, fs0, qi, exit_code>>
    /\ UNCHANGED <<normVars, twoVars, mergeVars>>

\* the rest of the try block once collect_for_query returned or raised:
\* normalize and append each job, sleep; or the except clause: lines 185-191
AfterQuery ==
    /\ pc \in {"fetched", "raised"}
    /\ pc' = "loop"
    /\ LET done == IF pc = "raised" THEN [out |-> <<>>, raised |-> TRUE]
                   ELSE normalize_all(result, Matrix[qi], clock)
       IN  /\ all_normalized' = all_normalized \o done.out
           /\ clock' = clock + Len(done.out) + 1
           /\ outcomes' = Append(outcomes, IF done.raised THEN "raised" ELSE "returned")
    \* time.sleep(1.0) ends the try block: an exception skips it
    /\ sleeps' = IF pc = "raised" \/ normalize_all(result, Matrix[qi], clock).raised
                 THEN sleeps ELSE Append(sleeps, "between queries")
    /\ UNCHANGED <<max_results, page_size, collected, start, attempt, result,
                   requests, tries, last, received>>
    /\ UNCHANGED <<SERPAPI_KEY, dirs, offres, args, fs, fs0, qi, saves, exit_code>>
    /\ UNCHANGED <<normVars, twoVars, mergeVars>>

\* output or DEFAULT: None and "" are falsy
path_or(output, default) == IF Truthy(output) THEN output ELSE default

\* the call merge_and_save(records, path) that ends run_collection.  It
\* makes the directory of the path first.  When read_csv raises nothing is
\* written and the exception leaves main: exit code 1.  Otherwise
\* run_collection returns, main returns: exit code 0.
save_at(records, path) ==
    /\ saves' = Append(saves, path)
    /\ dirs' = dirs \cup {dirname(path)}
    /\ IF EmptyDataError(fs[path])
       THEN fs' = fs /\ exit_code' = <<1>>
       ELSE /\ fs' = [fs EXCEPT ![path] = merge_and_save(records, @)]
            /\ exit_code' = <<0>>

\* a bug: no check that the batch is empty before the write
Save_no_empty_check ==
    /\ pc = "save"
    /\ pc' = "done"
    /\ IF args.dry_run
       THEN LET sample_path == path_or(args.output, DEFAULT_SAMPLE_CSV)
                df_sampled == head(sort_values(all_normalized), args.sample_size)
            IN  save_at(df_sampled, sample_path)
       ELSE LET out_path == path_or(args.output, DEFAULT_OUTPUT_CSV)
            IN  save_at(all_normalized, out_path)
    /\ UNCHANGED <<max_results, page_size, collected, start, attempt, result,
                   requests, tries, last, received, sleeps>>
    /\ UNCHANGED <<SERPAPI_KEY, offres, args, fs0, qi, all_normalized, outcomes, clock>>
    /\ UNCHANGED <<normVars, twoVars, mergeVars>>

\* the end of run_collection: lines 193-207
Save ==
    /\ pc = "save"
    /\ pc' = "done"
    /\ IF all_normalized = <<>>
       \* run_collection returns, main returns: exit code 0
       THEN UNCHANGED <<fs, saves, dirs>> /\ exit_code' = <<0>>
       ELSE IF args.dry_run
            THEN LET sample_path == path_or(args.output, DEFAULT_SAMPLE_CSV)
                     df_sampled == head(sort_values(all_normalized), args.sample_size)
                 IN  save_at(df_sampled, sample_path)
            ELSE LET out_path == path_or(args.output, DEFAULT_OUTPUT_CSV)
                 IN  save_at(all_normalized, out_path)
    /\ UNCHANGED <<max_results, page_size, collected, start, attempt, result,
                   requests, tries, last, received, sleeps>>
    /\ UNCHANGED <<SERPAPI_KEY, offres, args, fs0, qi, all_normalized, outcomes, clock>>
    /\ UNCHANGED <<normVars, twoVars, mergeVars>>

\* a row an earlier run left in the main corpus or in the sample
EarlierRow ==
    normalize_job(RawJob("u1", ABSENT, "T", "C"), "Product Owner", "France", "fr", 0)

\* the files at the paths when only the file at path p exists
OnlyFile(p, file) == [q \in Paths |-> IF q = p THEN file ELSE Absent]

\* the files a run with arguments a can find: none; the main corpus as a
\* run of 01c left it; and, when the run reads that path, the main corpus as
\* a run of 01b left it, with an offer or with none, or the sample an
\* earlier dry run left
EarlierFiles(a) ==
    LET path == path_or(a.output, IF a.dry_run THEN DEFAULT_SAMPLE_CSV
                                  ELSE DEFAULT_OUTPUT_CSV)
    IN  {OnlyFile(DEFAULT_OUTPUT_CSV, Absent),
         OnlyFile(DEFAULT_OUTPUT_CSV, CsvFile(<<EarlierRow>>))}
            \cup (IF path = DEFAULT_OUTPUT_CSV
                  THEN {OnlyFile(DEFAULT_OUTPUT_CSV, sauvegarder(<<EarlierOffre>>)),
                        OnlyFile(DEFAULT_OUTPUT_CSV, sauvegarder(<<>>))}
                  ELSE {})
            \cup (IF path = DEFAULT_SAMPLE_CSV
                  THEN {OnlyFile(DEFAULT_SAMPLE_CSV, CsvFile(<<EarlierRow>>))}
                  ELSE {})

\* python scripts/01c_serp_collect.py [--dry-run] [--sample-size N]
\* [--max-per-query N] [--output PATH]
Init ==
    /\ NormIdle
    /\ TwoIdle
    /\ MergeIdle
    /\ pc = "start"
    /\ max_results = 0
    /\ page_size = DEFAULT_PAGE_SIZE
    /\ collected = <<>>
    /\ start = 0
    /\ attempt = 0
    /\ result = <<>>
    /\ requests = <<>>
    /\ tries = <<>>
    /\ last = NoOutcome
    /\ received = <<>>
    /\ sleeps = <<>>
    /\ SERPAPI_KEY \in BOOLEAN
    \* a normal run does not read sample_size beyond line 176, nor a dry run
    \* max_per_query: each is drawn only where it is used; a normal run whose
    \* --output names the main corpus is the run without --output
    /\ args \in {a \in [max_per_query : {1, 2}, dry_run : BOOLEAN, sample_size : {1, 2},
                         output : {NULL, DEFAULT_OUTPUT_CSV, OtherPath}] :
                    IF a.dry_run THEN a.max_per_query = 1
                    ELSE a.sample_size = 1 /\ a.output # DEFAULT_OUTPUT_CSV}
    /\ fs \in EarlierFiles(args)
    /\ fs0 = fs
    /\ qi = 0
    /\ all_normalized = <<>>
    /\ outcomes = <<>>
    /\ saves = <<>>
    /\ exit_code = <<>>
    /\ offres = <<>>
    \* merge_and_save makes the directory whether it exists or not
    \* (exist_ok): data/raw is drawn missing unless a file is in it
    /\ dirs = {"."} \cup {dirname(p) : p \in {q \in Paths : fs[q].exists}}
    /\ clock = 1

Next ==
    \/ RunStart
    \/ NextQuery
    \/ CollectEnter /\ UNCHANGED <<normVars, twoVars, mergeVars, runVars>>
    \/ \E o \in RunOutcomes : HttpAttempt(o) /\ UNCHANGED <<normVars, twoVars, mergeVars, runVars>>
    \/ AfterQuery
    \/ Save

Spec == Init /\ [][Next]_vars

(***************************************************************************)
(* One run of scripts/01b_auto_collect.py.                                 *)
(***************************************************************************)
\* the guard of the run on the API key (os.environ.get with a placeholder
\* as default: exit(1) when the variable is not set) and the construction of
\* the collector
AutoStart ==
    /\ pc = "auto_start"
    /\ pc' = IF SERPAPI_KEY THEN "auto_loop" ELSE "done"
    /\ exit_code' = IF SERPAPI_KEY THEN <<>> ELSE <<1>>
    /\ offres' = <<>>
    /\ qi' = 0
    /\ UNCHANGED <<max_results, page_size, collected, start, attempt, result,
                   requests, tries, last, received, sleeps>>
    /\ UNCHANGED <<SERPAPI_KEY, dirs, args, fs, fs0, all_normalized, outcomes, saves, clock>>
    /\ UNCHANGED <<normVars, twoVars, mergeVars>>

\* one turn of the loops of collecter_tout: collecter_offres for the next
\* (pays, role) pair, its search meeting o.  It sleeps a second after a page
\* it read through, and not after an error or an exception.
CollecterOffres(o) ==
    /\ pc = "auto_loop"
    /\ qi < Len(AutoMatrix)
    /\ qi' = qi + 1
    /\ LET q == AutoMatrix[qi + 1]
           extraites == collecter_offres(o, q.pays, q.role, NUM_PAR_PAYS_ROLE, clock)
           jobs == Slice(o.jobs, NUM_PAR_PAYS_ROLE)
       IN  /\ offres' = offres \o extraites
           /\ sleeps' = IF o.kind = "dict" /\ ~o.error
                           /\ \A i \in DOMAIN jobs : jobs[i].company_name # NULL
                        THEN <<"rate limiting">> ELSE <<>>
    /\ UNCHANGED <<pc, max_results, page_size, collected, start, attempt, result,
                   requests, tries, last, received>>
    /\ UNCHANGED <<SERPAPI_KEY, dirs, args, fs, fs0, all_normalized, outcomes, saves,
                   exit_code, clock>>
    /\ UNCHANGED <<normVars, twoVars, mergeVars>>

\* the end of the run: afficher_stats, which changes nothing, then
\* sauvegarder('data/raw/offres_google_jobs.csv').  Nothing in 01b makes a
\* directory: when data/raw is missing to_csv raises OSError, nothing is
\* written and the exit code is 1.  With no offer the file is written and
\* groupby raises: exit code 1.
Sauvegarder ==
    /\ pc = "auto_loop"
    /\ qi = Len(AutoMatrix)
    /\ pc' = "done"
    /\ IF to_csv_raises(DEFAULT_OUTPUT_CSV, dirs)
       THEN fs' = fs /\ exit_code' = <<1>>
       ELSE /\ fs' = [fs EXCEPT ![DEFAULT_OUTPUT_CSV] = sauvegarder(offres)]
            /\ exit_code' = IF groupby_raises(offres) THEN <<1>> ELSE <<0>>
    /\ UNCHANGED <<max_results, page_size, collected, start, attempt, result,
                   requests, tries, last, received, sleeps>>
    /\ UNCHANGED <<SERPAPI_KEY, dirs, offres, args, fs0, qi, all_normalized, outcomes,
                   saves, clock>>
    /\ UNCHANGED <<normVars, twoVars, mergeVars>>

\* python scripts/01b_auto_collect.py, the main corpus absent or as a run of
\* either script left it, the sample absent or as a dry run of 01c left it
InitAuto ==
    /\ NormIdle
    /\ TwoIdle
    /\ MergeIdle
    /\ pc = "auto_start"
    /\ max_results = 0
    /\ page_size = DEFAULT_PAGE_SIZE
    /\ collected = <<>>
    /\ start = 0
    /\ attempt = 0
    /\ result = <<>>
    /\ requests = <<>>
    /\ tries = <<>>
    /\ last = NoOutcome
    /\ received = <<>>
    /\ sleeps = <<>>
    /\ SERPAPI_KEY \in BOOLEAN
    /\ args = [max_per_query |-> 0, dry_run |-> FALSE, sample_size |-> 0, output |-> NULL]
    /\ fs \in [Paths -> {Absent, CsvFile(<<EarlierRow>>)}]
                \cup {OnlyFile(DEFAULT_OUTPUT_CSV, sauvegarder(<<EarlierOffre>>)),
                      OnlyFile(DEFAULT_OUTPUT_CSV, sauvegarder(<<>>))}
    /\ fs0 = fs
    /\ qi = 0
    /\ all_normalized = <<>>
    /\ outcomes = <<>>
    /\ saves = <<>>
    /\ exit_code = <<>>
    /\ offres = <<>>
    /\ dirs \in DirsAround(fs)
    /\ clock = 1

NextAuto ==
    \/ AutoStart
    \/ \E o \in AutoOutcomes : CollecterOffres(o)
    \/ Sauvegarder

SpecAuto == InitAuto /\ [][NextAuto]_vars

(***************************************************************************)
(* Two runs of run_collection with the same arguments, from the same       *)
(* files, against the same API responses, started at two times.            *)
(***************************************************************************)
RECURSIVE traverse(_, _, _)
\* the for loops of run_collection from pair i on, results[i] being what
\* collect_for_query returns for pair i: the records appended
traverse(results, i, now) ==
    IF i > Len(results) THEN <<>>
    ELSE LET done == normalize_all(results[i], Matrix[i], now)
         IN  done.out \o traverse(results, i + 1, now + Len(done.out) + 1)

\* run_collection(max_per_query, dry_run, sample_size, output) with the key
\* set, started at time now: the files it leaves
run_collection(results, a, files, now) ==
    LET all == traverse(results, 1, now)
        path == path_or(a.output, IF a.dry_run THEN DEFAULT_SAMPLE_CSV
                                  ELSE DEFAULT_OUTPUT_CSV)
    IN  IF all = <<>> \/ EmptyDataError(files[path]) THEN files
        ELSE IF a.dry_run
             THEN [files EXCEPT ![path] =
                      merge_and_save(head(sort_values(all), a.sample_size), @)]
             ELSE [files EXCEPT ![path] = merge_and_save(all, @)]

InitTwoRuns ==
    /\ NormIdle
    /\ MergeIdle
    /\ FetchIdle
    /\ RunIdle
    /\ t_results \in [1 .. Len(Matrix) -> Pages(MaxRunPage)]
    /\ t_args \in [max_per_query : {1}, dry_run : BOOLEAN, sample_size : {1, 2},
                   output : {NULL, DEFAULT_OUTPUT_CSV, OtherPath}]
    /\ t_files \in EarlierFiles(t_args)
    /\ t_now \in {<<t1, t2>> : t1 \in Stamps, t2 \in Stamps}
    /\ t_out = <<>>

\* both runs
RunTwice ==
    /\ t_out = <<>>
    /\ t_out' = <<run_collection(t_results, t_args, t_files, t_now[1]),
                  run_collection(t_results, t_args, t_files, t_now[2])>>
    /\ UNCHANGED <<t_results, t_args, t_files, t_now>>
    /\ UNCHANGED <<normVars, mergeVars, fetchVars, runVars>>

NextTwoRuns == RunTwice

SpecTwoRuns == InitTwoRuns /\ [][NextTwoRuns]_vars

(***************************************************************************)
(* Claims about the corpus store, checked under SpecMerge.                 *)
(***************************************************************************)
IdsOf(file) == {file.rows[i].id : i \in DOMAIN file.rows}

RowSet(file) == {file.rows[i] : i \in DOMAIN file.rows}

RECURSIVE KeepFirstById(_)
\* the rows in order, each row whose id occurred earlier removed
KeepFirstById(rows) ==
    IF rows = <<>> THEN <<>>
    ELSE <<Head(rows)>> \o
         KeepFirstById(SelectSeq(Tail(rows), LAMBDA r : r.id # Head(rows).id))

\* C1: after any sequence of merge_and_save calls on one path, no two rows
\* of the persisted corpus share the same id.
C1_NoTwoRowsShareId ==
    \A i, j \in DOMAIN corpus.rows :
        i # j => corpus.rows[i].id # corpus.rows[j].id

\* C2: merging the same batch twice in a row leaves the same set of rows
\* and the same row count as merging it once.
C2_MergeIdempotent ==
    m_twice =>
        /\ RowSet(corpus) = RowSet(m_before)
        /\ Len(corpus.rows) = Len(m_before.rows)

\* C3: after a merge the ids of the corpus are exactly the ids present
\* before the merge united with the ids of the batch.
C3_IdsAreUnion ==
    m_calls > 0 =>
        IdsOf(corpus) = IdsOf(m_before) \cup {m_batch[i].id : i \in DOMAIN m_batch}

\* C4: the rows written are the existing rows in stored order followed by
\* the new rows in batch order, each row whose id occurred earlier removed,
\* so that for an id in both the stored row is the one kept, unchanged.
C4_ExistingFirstKeepFirst ==
    m_calls > 0 =>
        corpus.rows = KeepFirstById(m_before.rows \o m_batch)

(***************************************************************************)
(* Claims about the fetcher, checked under SpecFetch.                      *)
(***************************************************************************)
IsPrefix(s, t) == Len(s) <= Len(t) /\ s = SubSeq(t, 1, Len(s))

\* C5: collect_for_query returns at most max_results records (none when the
\* cap is not positive), and they are a prefix of the concatenation of the
\* pages received in request order, whatever the sizes of the pages.
C5_ResultCapPrefix ==
    pc = "fetched" =>
        /\ Len(result) <= Max(max_results, 0)
        /\ IsPrefix(result, received)

\* C5 witness: a query of several pages, the last one larger than the page
\* size and overshooting the cap, has returned exactly the cap.
C5_Witness ==
    /\ pc = "fetched"
    /\ Len(requests) >= 2
    /\ last.njobs > page_size
    /\ Len(received) > max_results
    /\ Len(result) = max_results

\* C6: when every attempt of a call of call_serpapi fails with a transport
\* exception or a status other than 200, exactly MAX_RETRIES attempts are
\* made; never more than MAX_RETRIES are made; and no attempt follows an
\* attempt that got status 200.
C6_RetryBound ==
    /\ Len(tries) <= MAX_RETRIES
    /\ (pc = "fetched" /\ tries # <<>>
          /\ \A i \in DOMAIN tries : tries[i] \in {"exc", "http"})
          => Len(tries) = MAX_RETRIES
    /\ \A i \in DOMAIN tries : i < Len(tries) => tries[i] \notin Status200

\* C7: page requests are issued at offsets 0, page_size, 2*page_size, ...;
\* once a page comes back with zero results the query is over, and it
\* returns the records of the earlier pages, fewer than the cap.
C7_PaginationTermination ==
    /\ \A i \in DOMAIN requests : requests[i] = (i - 1) * page_size
    /\ (last.kind \in {"dict", "falsy"} /\ last.njobs = 0) =>
          /\ pc = "fetched"
          /\ result = received
          /\ Len(result) < max_results

\* C7 witness: zero results came back on a page after the first, and the
\* query returned the records of the pages before it.
C7_Witness ==
    /\ pc = "fetched"
    /\ last.kind = "dict"
    /\ last.njobs = 0
    /\ Len(requests) >= 2
    /\ result # <<>>

(***************************************************************************)
(* Claims about a whole run, checked under Spec.                           *)
(***************************************************************************)
\* the last call of call_serpapi used up its retries and returned None
Exhausted ==
    /\ Len(tries) = MAX_RETRIES
    /\ tries[MAX_RETRIES] \in {"exc", "http", "badjson"}

\* the raw records whose normalized records of query q are in the batch
Reached(q) ==
    LET mine == SelectSeq(all_normalized,
                          LAMBDA r : r.role_query = q.role /\ r.country = q.country)
    IN  [i \in DOMAIN mine |-> mine[i].raw]

\* C8 (first half): once a page request used up its retries the query is
\* over and collect_for_query returned all the records of the earlier pages.
C8_PartialResultsReturned ==
    Exhausted => pc # "attempt" /\ result = received

\* C8: once a page request of a query used up its retries, no further page
\* request is issued for the query, collect_for_query returns all records of
\* the earlier pages, and those records are in the batch of the run.
C8_PartialResultsKept ==
    Exhausted =>
        /\ pc # "attempt"
        /\ result = received
        /\ pc = "loop" => Reached(Matrix[qi]) = result

\* C9: a page response that is malformed (its body cannot be parsed) or
\* carries an error field is not retried: no further HTTP attempt is made
\* for the page and the query is abandoned at once, the orchestrator going
\* on with the next query.
C9_NonRetryableNotRetried ==
    (last.kind = "badjson" \/ (last.kind = "dict" /\ last.error)) =>
        pc \in {"fetched", "loop"}

\* C9 (error field alone): a response with an error field is not retried
\* and ends the query.
C9_ErrorFieldEndsQuery ==
    (last.kind = "dict" /\ last.error) => pc \in {"fetched", "loop"}

\* C10: a dry run, whatever its other arguments, leaves the main corpus
\* file as it was: neither created nor modified.
C10_DryRunLeavesMainCorpus ==
    args.dry_run => fs[DEFAULT_OUTPUT_CSV] = fs0[DEFAULT_OUTPUT_CSV]

\* C10 (without the override): a dry run whose --output does not name the
\* main corpus file leaves it as it was.
C10_DryRunElsewhere ==
    (args.dry_run /\ args.output # DEFAULT_OUTPUT_CSV) =>
        fs[DEFAULT_OUTPUT_CSV] = fs0[DEFAULT_OUTPUT_CSV]

(***************************************************************************)
(* Claims about the normalizer, checked under SpecNormalize.               *)
(***************************************************************************)
\* the link the identifier is taken from, if the record has one
FirstLink(item) ==
    IF Truthy(get(item, "apply_link")) THEN get(item, "apply_link")
    ELSE IF Truthy(get(item, "link")) THEN get(item, "link")
    ELSE NULL

\* the two records agree on the first non-empty of apply_link, link and
\* the title with the company
SameKeyFields(a, b) ==
    /\ FirstLink(a) = FirstLink(b)
    /\ FirstLink(a) = NULL =>
          /\ a.title = b.title
          /\ a.company_name = b.company_name

\* C11: the id depends only on the first non-empty of apply_link, then
\* link, then title with company_name: two raw records that agree on it get
\* the same id, whatever their other fields, the query and the time.
C11_IdByPriority ==
    (n_out # <<>> /\ SameKeyFields(n_jobs[1], n_jobs[2])) =>
        n_out[1].id = n_out[2].id

\* C11 witness: two records with the same apply_link and different titles,
\* normalized for different queries at different times, got the same digest.
C11_Witness ==
    /\ n_out # <<>>
    /\ n_jobs[1].apply_link = "u1"
    /\ n_jobs[2].apply_link = "u1"
    /\ n_jobs[1].link # n_jobs[2].link
    /\ n_jobs[1].title = "T"
    /\ n_jobs[2].title = "TC"
    /\ n_out[1].role_query # n_out[2].role_query
    /\ n_out[1].retrieved_at # n_out[2].retrieved_at
    /\ n_out[1].id = sha1("u1")
    /\ n_out[2].id = sha1("u1")

\* the record has neither link, and a title and a company that are strings
TitledOnly(item) ==
    /\ FirstLink(item) = NULL
    /\ item.title \notin {ABSENT, NULL}
    /\ item.company_name \notin {ABSENT, NULL}

\* C12: two records without apply_link and link whose (title, company)
\* pairs differ get different ids.
C12_DistinctPairsDistinctIds ==
    (/\ n_out # <<>>
     /\ TitledOnly(n_jobs[1])
     /\ TitledOnly(n_jobs[2])
     /\ <<n_jobs[1].title, n_jobs[1].company_name>>
            # <<n_jobs[2].title, n_jobs[2].company_name>>)
        => n_out[1].id # n_out[2].id

\* the columns of the schema
Schema ==
    {"id", "title", "company", "location", "description", "date_posted",
     "source", "apply_link", "raw", "role_query", "country", "language",
     "retrieved_at"}

\* C15: for every raw record, with any fields absent or null, normalize_job
\* raises no error and returns a record with exactly the 13 fields of the
\* schema.
C15_NormalizeTotal ==
    \A i \in DOMAIN n_out :
        /\ n_out[i].id # RAISED
        /\ DOMAIN n_out[i] = Schema

(***************************************************************************)
(* Further claims about a whole run, checked under Spec.                   *)
(***************************************************************************)
\* the try block of query i ended in the except clause
Raised(i) == outcomes[i] = "raised"

\* the traversal is over: run_collection is at or past line 193
Traversed == pc = "save" \/ (pc = "done" /\ SERPAPI_KEY)

\* C13: whatever queries fail, the fetcher is invoked for every pair of the
\* configuration, in configuration order (one pair after the other, none
\* skipped), before run_collection reaches its final save-or-skip step.
C13_MatrixCompleted ==
    /\ [](Traversed => (qi = Len(Matrix) /\ Len(outcomes) = Len(Matrix)))
    /\ [][qi' # qi => (qi' = qi + 1 /\ pc' = "collect" /\ Len(outcomes) = qi)]_vars

\* C13 witness: the first query raised, the last query has just used up
\* its retries, and every pair has been invoked.
C13_Witness ==
    /\ pc = "loop"
    /\ qi = Len(Matrix)
    /\ Len(outcomes) = Len(Matrix)
    /\ Raised(1)
    /\ ~Raised(Len(Matrix))
    /\ Exhausted

\* C14: no record of a query whose try block raised is in the batch.
C14_RaisedQueryContributesNothing ==
    \A i \in DOMAIN outcomes : Raised(i) => Reached(Matrix[i]) = <<>>

\* C17: in normal mode no file changes and merge_and_save is not called
\* during the traversal, and merge_and_save is called exactly once, after
\* the last query.
C17_SingleWriteAtEnd ==
    (SERPAPI_KEY /\ ~args.dry_run) =>
        /\ pc # "done" => (fs = fs0 /\ saves = <<>>)
        /\ pc = "done" => (Len(saves) = 1 /\ qi = Len(Matrix))

\* C17 as amended: in normal mode no file changes and merge_and_save is not
\* called during the traversal; after the last query it is called exactly
\* once when at least one record was collected, and not at all otherwise.
C17_AtMostOneWriteAtEnd ==
    ~args.dry_run =>
        /\ pc # "done" => (fs = fs0 /\ saves = <<>>)
        /\ (pc = "done" /\ all_normalized # <<>>) =>
              (saves = <<path_or(args.output, DEFAULT_OUTPUT_CSV)>> /\ qi = Len(Matrix))
        /\ (pc = "done" /\ all_normalized = <<>>) => (fs = fs0 /\ saves = <<>>)

\* C17 witness: a normal run over an existing corpus wrote it once, at the
\* end, after a query that collected nothing and one that collected.
C17_Witness ==
    /\ pc = "done"
    /\ ~args.dry_run
    /\ qi = Len(Matrix)
    /\ Len(saves) = 1
    /\ fs0[DEFAULT_OUTPUT_CSV].exists
    /\ fs[DEFAULT_OUTPUT_CSV] # fs0[DEFAULT_OUTPUT_CSV]
    /\ Reached(Matrix[1]) = <<>>

\* C18: the process exits with code 0 on normal or partial completion, and
\* with a code other than 0 when the API key is missing.
C18_ExitCode ==
    pc = "done" =>
        /\ SERPAPI_KEY => exit_code = <<0>>
        /\ ~SERPAPI_KEY => (exit_code # <<>> /\ exit_code # <<0>>)

\* C19: when no query yields a normalized record, run_collection returns
\* normally without calling merge_and_save and no file is created or
\* modified, in normal and in dry-run mode.
C19_EmptyShortCircuit ==
    (pc = "done" /\ all_normalized = <<>>) =>
        /\ saves = <<>>
        /\ fs = fs0
        /\ exit_code = <<0>>

\* C19 witness: a dry run whose every query was made and yielded nothing
\* has returned.
C19_Witness ==
    /\ pc = "done"
    /\ SERPAPI_KEY
    /\ args.dry_run
    /\ Len(outcomes) = Len(Matrix)
    /\ all_normalized = <<>>

\* C20: after a dry run with sample size N that collected a record, the
\* sample file holds exactly the first N of the collected records in
\* ascending id order, whatever it held before.
C20_SampleContent ==
    (pc = "done" /\ args.dry_run /\ all_normalized # <<>>) =>
        LET sample == fs[path_or(args.output, DEFAULT_SAMPLE_CSV)]
        IN  /\ sample.exists
            /\ sample.rows = head(sort_values(all_normalized), args.sample_size)
            /\ Len(sample.rows) <= args.sample_size

(***************************************************************************)
(* Claims about two runs, checked under SpecTwoRuns.                       *)
(***************************************************************************)
\* the file a dry run writes its sample to
SampleOf(files) == files[path_or(t_args.output, DEFAULT_SAMPLE_CSV)]

\* the file with the retrieved_at column blanked
Unstamped(file) ==
    [exists |-> file.exists,
     rows |-> [i \in DOMAIN file.rows |-> [file.rows[i] EXCEPT !.retrieved_at = 0]]]

\* C16: two dry runs with the same arguments against identical API
\* responses leave byte-identical sample files.
C16_SampleByteIdentical ==
    (t_out # <<>> /\ t_args.dry_run) => SampleOf(t_out[1]) = SampleOf(t_out[2])

\* C16 as amended: the two sample files hold the same records in the same
\* order with the same truncation, and differ at most in retrieved_at.
C16_SampleIdenticalButStamps ==
    (t_out # <<>> /\ t_args.dry_run) =>
        Unstamped(SampleOf(t_out[1])) = Unstamped(SampleOf(t_out[2]))

\* C16 witness: two dry runs started at different times collected two
\* records, out of id order, and each wrote a sample truncated to one.
C16_Witness ==
    /\ t_out # <<>>
    /\ t_args.dry_run
    /\ t_args.sample_size = 1
    /\ t_now[1] # t_now[2]
    /\ ~SampleOf(t_files).exists
    /\ Len(traverse(t_results, 1, t_now[1])) = 2
    /\ IdRank(traverse(t_results, 1, t_now[1])[1].id)
          > IdRank(traverse(t_results, 1, t_now[1])[2].id)
    /\ Len(SampleOf(t_out[1]).rows) = 1
    /\ SampleOf(t_out[1]).rows[1].id = traverse(t_results, 1, t_now[1])[2].id
    /\ SampleOf(t_out[1]) # SampleOf(t_out[2])

(***************************************************************************)
(* Claims about the pacing of the requests, checked under Spec.            *)
(***************************************************************************)
\* a page request is being issued: the first HTTP attempt of a call of
\* call_serpapi is about to be made
PageRequest == pc = "attempt" /\ attempt = 1

\* a sleep of fixed length was made since the last HTTP attempt
FixedSleep ==
    \E i \in DOMAIN sleeps : sleeps[i] \in {"REQUEST_SLEEP", "between queries"}

\* C21: a fixed sleep occurs between any two consecutive page requests of
\* one query, and between the last request of a query and the first request
\* of the next query, whether or not the earlier query succeeded.
C21_CourtesyDelay ==
    (PageRequest /\ (Len(requests) >= 2 \/ qi > 1)) => FixedSleep

\* C21 (without the exceptions): a fixed sleep occurs between two page
\* requests of one query, and before the first request of a query that
\* follows one whose try block did not raise.
C21_DelayUnlessRaised ==
    /\ (PageRequest /\ Len(requests) >= 2) => sleeps = <<"REQUEST_SLEEP">>
    /\ (PageRequest /\ Len(requests) = 1 /\ qi > 1 /\ ~Raised(qi - 1)) =>
          sleeps[Len(sleeps)] = "between queries"

(***************************************************************************)
(* Claims about the termination of the fetcher, checked under              *)
(* FairSpecFetch.                                                          *)
(***************************************************************************)
\* C22: whatever the API answers, collect_for_query terminates; it issues
\* at most max_results page requests, and no request at all (no HTTP
\* attempt) when max_results is 0 or negative.
C22_FetcherTerminates ==
    /\ [](Len(requests) <= Max(max_results, 0))
    /\ [](max_results <= 0 => (requests = <<>> /\ tries = <<>>))
    /\ <>(pc \in {"fetched", "raised"})

\* C22 witness: a call with a cap of two or more has ended after as many
\* page requests as the cap, the last of which used up its retries.
C22_Witness ==
    /\ pc = "fetched"
    /\ max_results >= 2
    /\ Len(requests) = max_results
    /\ Exhausted

====
